---- MODULE Spec2Model ----
(***************************************************************************)
(* A model of methane_leakage_calculation.py: a straight-line script that  *)
(* converts methane leak rates of the Uinta Basin into annual tonnage,     *)
(* fees, social cost, CO2-equivalents, car and household equivalents.      *)
(*                                                                         *)
(* Numbers.  The script computes in binary floating point.  The model      *)
(* computes the same expressions, in the same order, in exact rational     *)
(* arithmetic: a number is a fraction num/den of two naturals of unbounded *)
(* size (sequences of base-10^4 limbs, least significant first, because    *)
(* the products do not fit a machine integer), or one of the two special   *)
(* values a division by zero produces in numpy, inf and nan.  Rounding     *)
(* error of the floating-point operations is outside the model.            *)
(***************************************************************************)
EXTENDS Integers, Sequences, FiniteSets, TLC

(***************************************************************************)
(* Naturals of unbounded size                                              *)
(***************************************************************************)
Base == 100 * 100

Shift(a) == IF a = <<>> THEN <<>> ELSE <<0>> \o a

Rest(a) == IF a = <<>> THEN <<>> ELSE Tail(a)

Low(a) == IF a = <<>> THEN 0 ELSE Head(a)

RECURSIVE BigNorm(_)
BigNorm(a) ==
    IF a = <<>> THEN <<>>
    ELSE IF a[Len(a)] = 0 THEN BigNorm(SubSeq(a, 1, Len(a) - 1))
    ELSE a

RECURSIVE BigFromInt(_)
BigFromInt(n) == IF n = 0 THEN <<>> ELSE <<n % Base>> \o BigFromInt(n \div Base)

RECURSIVE BigAddC(_, _, _)
BigAddC(a, b, c) ==
    IF a = <<>> /\ b = <<>> THEN (IF c = 0 THEN <<>> ELSE <<c>>)
    ELSE LET s == Low(a) + Low(b) + c
         IN  <<s % Base>> \o BigAddC(Rest(a), Rest(b), s \div Base)

BigAdd(a, b) == BigAddC(a, b, 0)

RECURSIVE BigMulSmallC(_, _, _)
BigMulSmallC(a, k, c) ==
    IF a = <<>> THEN (IF c = 0 THEN <<>> ELSE <<c>>)
    ELSE LET s == Head(a) * k + c
         IN  <<s % Base>> \o BigMulSmallC(Tail(a), k, s \div Base)

BigMulSmall(a, k) == IF k = 0 THEN <<>> ELSE BigMulSmallC(a, k, 0)

RECURSIVE BigMul(_, _)
BigMul(a, b) ==
    IF a = <<>> \/ b = <<>> THEN <<>>
    ELSE BigAdd(BigMulSmall(a, Head(b)), Shift(BigMul(a, Tail(b))))

RECURSIVE BigCmpFrom(_, _, _)
BigCmpFrom(a, b, i) ==
    IF i = 0 THEN 0
    ELSE IF a[i] < b[i] THEN -1
    ELSE IF a[i] > b[i] THEN 1
    ELSE BigCmpFrom(a, b, i - 1)

BigCmp(a, b) ==
    IF Len(a) < Len(b) THEN -1
    ELSE IF Len(a) > Len(b) THEN 1
    ELSE BigCmpFrom(a, b, Len(a))

BigLt(a, b) == BigCmp(a, b) = -1

BigLeq(a, b) == BigCmp(a, b) # 1

RECURSIVE BigSubB(_, _, _)
BigSubB(a, b, w) ==
    IF a = <<>> THEN <<>>
    ELSE LET s == Head(a) - Low(b) - w
         IN  IF s < 0 THEN <<s + Base>> \o BigSubB(Tail(a), Rest(b), 1)
             ELSE <<s>> \o BigSubB(Tail(a), Rest(b), 0)

\* a - b for b <= a
BigSub(a, b) == BigNorm(BigSubB(a, b, 0))

RECURSIVE BigDigit(_, _, _, _)
BigDigit(r, d, lo, hi) ==
    IF lo = hi THEN lo
    ELSE LET mid == (lo + hi + 1) \div 2
         IN  IF BigLeq(BigMulSmall(d, mid), r) THEN BigDigit(r, d, mid, hi)
             ELSE BigDigit(r, d, lo, mid - 1)

\* floor(n / d) for d # 0
RECURSIVE BigDiv(_, _)
BigDiv(n, d) ==
    IF BigLt(n, d) THEN <<>>
    ELSE LET qh == BigDiv(n, Shift(d))
             r  == BigSub(n, BigMul(Shift(qh), d))
         IN  BigAdd(Shift(qh), BigFromInt(BigDigit(r, d, 0, Base - 1)))

RECURSIVE BigPow10(_)
BigPow10(e) == IF e = 0 THEN <<1>> ELSE BigMulSmall(BigPow10(e - 1), 10)

(***************************************************************************)
(* Floating-point values: a fraction, inf, nan, or a name not yet bound    *)
(***************************************************************************)
Num(n, d) == [k |-> "num", num |-> n, den |-> d]

Inf == [k |-> "inf", num |-> <<>>, den |-> <<>>]

NaN == [k |-> "nan", num |-> <<>>, den |-> <<>>]

Unset == [k |-> "unset", num |-> <<>>, den |-> <<>>]

\* the integer literal n
IntLit(n) == Num(BigFromInt(n), <<1>>)

\* the decimal literal m * 10^-e
DecLit(m, e) == Num(BigFromInt(m), BigPow10(e))

IsNum(a) == a.k = "num"

IsZero(a) == a.k = "num" /\ a.num = <<>>

\* a * b (IEEE 754: inf * 0 is nan)
QMul(a, b) ==
    IF a.k = "nan" \/ b.k = "nan" THEN NaN
    ELSE IF a.k = "inf" \/ b.k = "inf"
         THEN (IF IsZero(a) \/ IsZero(b) THEN NaN ELSE Inf)
    ELSE Num(BigMul(a.num, b.num), BigMul(a.den, b.den))

\* a division that yields nan for every zero divisor
QDivNaNForZero(a, b) ==
    IF a.k = "nan" \/ b.k = "nan" THEN NaN
    ELSE IF b.k = "inf" THEN (IF a.k = "inf" THEN NaN ELSE Num(<<>>, <<1>>))
    ELSE IF a.k = "inf" THEN Inf
    ELSE IF IsZero(b) THEN NaN
    ELSE Num(BigMul(a.num, b.den), BigMul(a.den, b.num))

\* a / b as numpy divides the elements of a Series (IEEE 754): x/0 is inf,
\* 0/0 is nan, neither raises
QDiv(a, b) ==
    IF a.k = "nan" \/ b.k = "nan" THEN NaN
    ELSE IF b.k = "inf" THEN (IF a.k = "inf" THEN NaN ELSE Num(<<>>, <<1>>))
    ELSE IF a.k = "inf" THEN Inf
    ELSE IF IsZero(b) THEN (IF IsZero(a) THEN NaN ELSE Inf)
    ELSE Num(BigMul(a.num, b.den), BigMul(a.den, b.num))

\* a + b and a - b (b <= a) of fractions
QAdd(a, b) ==
    Num(BigAdd(BigMul(a.num, b.den), BigMul(b.num, a.den)), BigMul(a.den, b.den))

QSub(a, b) ==
    Num(BigSub(BigMul(a.num, b.den), BigMul(b.num, a.den)), BigMul(a.den, b.den))

\* int(a) of a fraction: truncation (the values are not negative)
QInt(a) == Num(BigDiv(a.num, a.den), <<1>>)

\* comparisons of values
QEq(a, b) ==
    /\ a.k = b.k
    /\ a.k = "num" => BigMul(a.num, b.den) = BigMul(b.num, a.den)

QLt(a, b) ==
    /\ a.k = "num" /\ b.k = "num"
    /\ BigLt(BigMul(a.num, b.den), BigMul(b.num, a.den))

QLeq(a, b) ==
    /\ a.k = "num" /\ b.k = "num"
    /\ BigLeq(BigMul(a.num, b.den), BigMul(b.num, a.den))

\* elementwise arithmetic of a pandas Series with a scalar
SMul(s, q) == [i \in DOMAIN s |-> QMul(s[i], q)]

SDiv(s, q) == [i \in DOMAIN s |-> QDiv(s[i], q)]

(***************************************************************************)
(* A pandas DataFrame: a Series per column name.  The order in which the   *)
(* frame lists its columns (the order of their first assignment) is read   *)
(* by no statement and is not kept.                                        *)
(***************************************************************************)
HasColumn(df, c) == c \in DOMAIN df

\* df[c] = vals
SetColumn(df, c, vals) == (c :> vals) @@ df

(***************************************************************************)
(* The script's expressions, one operator per right-hand side              *)
(***************************************************************************)

\* line 26: tj*0.94781712
Mmcf(tj) == QMul(tj, DecLit(94781712, 8))

\* line 39 with the density of line 36 (0.678 kg/m3)
Mmtch4UcsDensity(mmcf) ==
    QMul(QMul(QMul(mmcf, DecLit(283168, 7)), DecLit(678, 3)),
         QDiv(IntLit(1), IntLit(1000)))

\* line 39: mmcf*0.0283168*0.713*(1/1e3)
Mmtch4(mmcf) ==
    QMul(QMul(QMul(mmcf, DecLit(283168, 7)), DecLit(713, 3)),
         QDiv(IntLit(1), IntLit(1000)))

\* lines 45, 46: 100*33/mmtch4 and 100*5/mmtch4, for mmtch4 # 0
Pctleak(reported, mmtch4) == QDiv(QMul(IntLit(100), IntLit(reported)), mmtch4)

\* lines 98, 99
Gwp100 == DecLit(298, 1)

Gwp20 == DecLit(825, 1)

\* line 61 with the days of a common year
TonYr365(df) == SMul(SMul(df["ton_hr"], IntLit(24)), IntLit(365))

\* line 61: ch4_leak['ton_hr']*24*365.25
TonYr(df) == SMul(SMul(df["ton_hr"], IntLit(24)), DecLit(36525, 2))

\* lines 73-75 with the first schedule pasted into all three
FeeCopyPaste(df, rate) == SMul(df["ton_yr"], IntLit(900))

\* lines 73-75: ch4_leak['ton_yr']*900, *1200, *1500
Fee(df, rate) == SMul(df["ton_yr"], IntLit(rate))

\* lines 90, 91: ch4_leak['ton_yr']*1000, *1500
SocialCost(df, rate) == SMul(df["ton_yr"], IntLit(rate))

\* lines 103, 104 with gwp100 in both
Co2eFixedGwp(df, gwp) == SDiv(SMul(df["ton_yr"], DecLit(298, 1)), IntLit(1000000))

\* lines 103, 104: ch4_leak['ton_yr']*gwp/1e6
Co2e(df, gwp) == SDiv(SMul(df["ton_yr"], gwp), IntLit(1000000))

\* lines 153, 154 reading ton_yr in place of the CO2-equivalent
CarOfTonYr(df, co2e) == SDiv(SMul(df["ton_yr"], IntLit(1000000)), DecLit(46, 1))

\* lines 153, 154: ch4_leak['co2e_gwp...']*1e6/4.6
Car(df, co2e) == SDiv(SMul(df[co2e], IntLit(1000000)), DecLit(46, 1))

\* lines 231, 236: ch4_leak['ton_yr']*ch4ton_to_usd_...
UsdYr(df, ch4ton_to_usd) == SMul(df["ton_yr"], ch4ton_to_usd)

\* lines 206-214: the one-row frame ch4_cost, a column per conversion ratio
ch4_cost ==
    [emission_kg    |-> IntLit(35000),
     kg_ng_kg_ch4   |-> QDiv(IntLit(1), DecLit(96, 2)),
     specific_vol   |-> QDiv(DecLit(14025, 4), IntLit(1)),
     ft3_m3         |-> QDiv(QMul(QMul(DecLit(328048, 5), DecLit(328048, 5)),
                                  DecLit(328048, 5)),
                             QMul(QMul(IntLit(1), IntLit(1)), IntLit(1))),
     mcf_ft3        |-> QDiv(IntLit(1), IntLit(1000)),
     mmbtu_mcf      |-> QDiv(DecLit(1045, 3), IntLit(1)),
     usd_mmbtu_past |-> QDiv(DecLit(300, 2), IntLit(1)),
     usd_mmbtu_now  |-> QDiv(DecLit(300, 2), IntLit(1))]

\* lines 224-225, 233-234: the chain kg CH4 -> kg gas -> m3 -> ft3 -> mcf ->
\* mmbtu -> usd
Ch4kgToUsd(price) ==
    QMul(QMul(QMul(QMul(QMul(ch4_cost.kg_ng_kg_ch4, ch4_cost.specific_vol),
                        ch4_cost.ft3_m3), ch4_cost.mcf_ft3),
              ch4_cost.mmbtu_mcf), price)

\* lines 218-219: emission_kg times the same chain
Cost == 
    QMul(QMul(QMul(QMul(QMul(QMul(ch4_cost.emission_kg, ch4_cost.kg_ng_kg_ch4),
                             ch4_cost.specific_vol), ch4_cost.ft3_m3),
                   ch4_cost.mcf_ft3), ch4_cost.mmbtu_mcf),
         ch4_cost.usd_mmbtu_now)

\* line 220: cost[0]*365.25*24
CostPerYear(cost) == QMul(QMul(cost, DecLit(36525, 2)), IntLit(24))

\* lines 229, 235: ch4kg_to_usd*1000
Ch4tonToUsd(ch4kg_to_usd) == QMul(ch4kg_to_usd, IntLit(1000))

\* line 241 with the days of a common year
TypicalCarKgCo2Hr365 ==
    QDiv(QMul(IntLit(1000), DecLit(46, 1)), QMul(IntLit(365), IntLit(24)))

\* line 241: 1000*4.6/(365.25*24)
TypicalCarKgCo2Hr ==
    QDiv(QMul(IntLit(1000), DecLit(46, 1)), QMul(DecLit(36525, 2), IntLit(24)))

\* lines 243, 244, before int(): ch4_cost['emission_kg']*gwp/typical_car_kg_co2_hr
CarsPerHour(gwp, typical_car_kg_co2_hr) ==
    QDiv(QMul(ch4_cost.emission_kg, gwp), typical_car_kg_co2_hr)

\* line 261: 288*1000*1000*(1/mcf_ft3)*(1/ft3_m3)*(1/specific_vol)*(1/kg_ng_kg_ch4)
TotalHouseholdKgCh4 ==
    QMul(QMul(QMul(QMul(QMul(QMul(IntLit(288), IntLit(1000)), IntLit(1000)),
                        QDiv(IntLit(1), ch4_cost.mcf_ft3)),
                   QDiv(IntLit(1), ch4_cost.ft3_m3)),
              QDiv(IntLit(1), ch4_cost.specific_vol)),
         QDiv(IntLit(1), ch4_cost.kg_ng_kg_ch4))

\* line 262 with a division that yields nan for every zero divisor
TypicalHouseholdKgCh4NaN(total, pop) == QDivNaNForZero(total, pop)

\* line 262: total_household_kg_ch4/4.62e6, a Series divided by the population
TypicalHouseholdKgCh4(total, pop) == QDiv(total, pop)

\* line 263: typical_household_kg_ch4/(365.25*24)
TypicalHouseholdKgCh4Hr(typical) ==
    QDiv(typical, QMul(DecLit(36525, 2), IntLit(24)))

\* line 264, before int(): ch4_cost['emission_kg'][0]/typical_household_kg_ch4_hr
HouseholdsPerHour(typical_hr) == QDiv(ch4_cost.emission_kg, typical_hr)

\* lines 271-272 without the last factor, kg to ton
TonCh4PerMmbtuPerKg ==
    QMul(QMul(QMul(QMul(QDiv(IntLit(1), ch4_cost.mmbtu_mcf),
                        QDiv(IntLit(1), ch4_cost.mcf_ft3)),
                   QDiv(IntLit(1), ch4_cost.ft3_m3)),
              QDiv(IntLit(1), ch4_cost.specific_vol)),
         QDiv(IntLit(1), ch4_cost.kg_ng_kg_ch4))

\* lines 271-272: the chain of reciprocals, mmbtu -> ... -> kg CH4 -> ton
TonCh4PerMmbtu ==
    QMul(QMul(QMul(QMul(QMul(QDiv(IntLit(1), ch4_cost.mmbtu_mcf),
                             QDiv(IntLit(1), ch4_cost.mcf_ft3)),
                        QDiv(IntLit(1), ch4_cost.ft3_m3)),
                   QDiv(IntLit(1), ch4_cost.specific_vol)),
              QDiv(IntLit(1), ch4_cost.kg_ng_kg_ch4)),
         QDiv(IntLit(1), IntLit(1000)))

\* line 278: np.linspace(start, stop, n) = start + i*(stop-start)/(n-1), i < n
Linspace(start, stop, n) ==
    [i \in 1..n |->
        QAdd(IntLit(start),
             QMul(IntLit(i - 1), QDiv(IntLit(stop - start), IntLit(n - 1))))]

\* lines 279-281 with the leak rate taken as a fraction, not a percentage
UsdPerMmbtuNoPercent(fee, lr, ton) ==
    [i \in DOMAIN lr |-> QMul(QMul(IntLit(fee), lr[i]), ton)]

\* lines 279-281: fee*(leak_rates['leak_rate']/100)*ton_ch4_per_mmbtu[0]
UsdPerMmbtu(fee, lr, ton) ==
    [i \in DOMAIN lr |->
        QMul(QMul(IntLit(fee), QDiv(lr[i], IntLit(100))), ton)]

(***************************************************************************)
(* Lines 106-167: expression statements whose value is only displayed      *)
(***************************************************************************)
InlineLines ==
    {107, 108, 111, 112, 115, 116, 137, 138, 141, 142, 145, 146,
     158, 159, 162, 163, 166, 167}

InlineKind(line) ==
    IF line < 137 THEN "co2e" ELSE IF line < 158 THEN "pct" ELSE "car"

\* the tons/hour literal of the expression
InlineRate(line) ==
    IF line \in {107, 108, 158, 159} THEN 55
    ELSE IF line \in {115, 116, 145, 146, 166, 167} THEN 25
    ELSE 45

\* which GWP name the expression reads
InlineGwp(line) ==
    IF line \in {107, 111, 115, 137, 141, 145, 158, 162, 166}
    THEN "gwp20" ELSE "gwp100"

\* the state total of lines 137-146
InlineTotal(line) ==
    IF line \in {137, 138} THEN DecLit(614, 1)
    ELSE IF line \in {141, 142} THEN DecLit(635, 1)
    ELSE DecLit(611, 1)

\* rate*24*365
InlineTonYr(rate) == QMul(QMul(IntLit(rate), IntLit(24)), IntLit(365))

InlineValue(line, gl) ==
    LET gwp == IF InlineGwp(line) = "gwp20" THEN gl.gwp20 ELSE gl.gwp100
        ty  == InlineTonYr(InlineRate(line))
        mmt == QDiv(QMul(ty, gwp), IntLit(1000000))
        tot == InlineTotal(line)
    IN  CASE InlineKind(line) = "co2e" -> mmt
          [] InlineKind(line) = "pct" ->
                QMul(IntLit(100), QSub(QDiv(QAdd(mmt, tot), tot), IntLit(1)))
          [] OTHER -> QDiv(QMul(ty, gwp), DecLit(46, 1))

(***************************************************************************)
(* The derived columns of ch4_leak                                         *)
(***************************************************************************)
DerivedColumns ==
    {"ton_yr", "fee_900", "fee_1200", "fee_1500", "social_cost_1000",
     "social_cost_1500", "co2e_gwp100", "co2e_gwp20", "car_gwp100",
     "car_gwp20", "usd_yr_now", "usd_yr_past"}

\* the line of the statement that assigns the column
ColumnLine(c) ==
    CASE c = "ton_yr" -> 61
      [] c = "fee_900" -> 73
      [] c = "fee_1200" -> 74
      [] c = "fee_1500" -> 75
      [] c = "social_cost_1000" -> 90
      [] c = "social_cost_1500" -> 91
      [] c = "co2e_gwp100" -> 103
      [] c = "co2e_gwp20" -> 104
      [] c = "car_gwp100" -> 153
      [] c = "car_gwp20" -> 154
      [] c = "usd_yr_now" -> 231
      [] c = "usd_yr_past" -> 236

\* the column the statement reads: ch4_leak[...] raises KeyError without it
ColumnReads(c) ==
    CASE c = "ton_yr" -> "ton_hr"
      [] c = "car_gwp100" -> "co2e_gwp100"
      [] c = "car_gwp20" -> "co2e_gwp20"
      [] OTHER -> "ton_yr"

\* the right-hand side of the statement
ColumnValue(c, df, gl) ==
    CASE c = "ton_yr" -> TonYr(df)
      [] c = "fee_900" -> Fee(df, 900)
      [] c = "fee_1200" -> Fee(df, 1200)
      [] c = "fee_1500" -> Fee(df, 1500)
      [] c = "social_cost_1000" -> SocialCost(df, 1000)
      [] c = "social_cost_1500" -> SocialCost(df, 1500)
      [] c = "co2e_gwp100" -> Co2e(df, gl.gwp100)
      [] c = "co2e_gwp20" -> Co2e(df, gl.gwp20)
      [] c = "car_gwp100" -> Car(df, "co2e_gwp100")
      [] c = "car_gwp20" -> Car(df, "co2e_gwp20")
      [] c = "usd_yr_now" -> UsdYr(df, gl.ch4ton_to_usd_now)
      [] c = "usd_yr_past" -> UsdYr(df, gl.ch4ton_to_usd_past)

(***************************************************************************)
(* Inputs.  The script's inputs are literals; the model draws each from a  *)
(* small set that holds the literal, so that the operators are exercised   *)
(* as functions of their inputs.                                           *)
(***************************************************************************)
MaxRate == 2

MaxTj == 1

\* lines 58-59
LiteralTable ==
    [year   |-> <<2012, 2015, 2016, 2017, 2018, 2019, 2020, 2023>>,
     ton_hr |-> <<IntLit(55), DecLit(4601307, 5), DecLit(3517388, 5),
                  DecLit(3679047, 5), DecLit(310703, 4),
                  DecLit(2921299, 5), DecLit(2380824, 5), IntLit(35)>>]

\* a table of one observation of r tons/hour
OneRowTable(r) ==
    [year |-> <<2023>>, ton_hr |-> <<IntLit(r)>>]

Tables == {LiteralTable} \cup {OneRowTable(r) : r \in 0..MaxRate}

\* line 25 is tj = 25786288
TjInputs == {25786288} \cup (0..MaxTj)

\* line 262 divides by 4.62e6
PopulationInputs == {4620000, 0}

(***************************************************************************)
(* State                                                                   *)
(***************************************************************************)
VARIABLES
    pc,          \* the line of the next statement to run, Done after the last
    err,         \* "" or the exception that ended the script
    out,         \* the value of the last expression statement
    stdout,      \* what print() has written
    g,           \* the module-level names bound to numbers
    population,  \* the regional population that line 262 divides by
    ch4_leak,    \* the frame of yearly observations
    leak_rates   \* the frame of the fee sweep

vars == <<pc, err, out, stdout, g, population, ch4_leak, leak_rates>>

Done == 0

\* the statements the model runs, by line, in the order of the file (the
\* ratios of lines 190-196 and the plot of lines 283-291 bind no name and
\* are left out)
Lines ==
    <<26, 39, 45, 46, 61, 73, 74, 75, 90, 91, 98, 99, 103, 104,
      107, 108, 111, 112, 115, 116, 137, 138, 141, 142, 145, 146,
      153, 154, 158, 159, 162, 163, 166, 167,
      218, 220, 224, 226, 229, 231, 233, 235, 236,
      241, 243, 244, 246, 247, 261, 262, 263, 264, 265,
      271, 273, 276, 278, 279, 280, 281>>

Succ(line) ==
    LET i == CHOOSE j \in DOMAIN Lines : Lines[j] = line
    IN  IF i = Len(Lines) THEN Done ELSE Lines[i + 1]

GUnset ==
    [tj |-> Unset, mmcf |-> Unset, mmtch4 |-> Unset, pctleak_high |-> Unset,
     pctleak_low |-> Unset, gwp100 |-> Unset, gwp20 |-> Unset, cost |-> Unset,
     ch4kg_to_usd_now |-> Unset, ch4ton_to_usd_now |-> Unset,
     ch4kg_to_usd_past |-> Unset, ch4ton_to_usd_past |-> Unset,
     typical_car_kg_co2_hr |-> Unset, equivalent_to_gwp20 |-> Unset,
     equivalent_to_gwp100 |-> Unset, total_household_kg_ch4 |-> Unset,
     typical_household_kg_ch4 |-> Unset, typical_household_kg_ch4_hr |-> Unset,
     typical_number_households |-> Unset, ton_ch4_per_mmbtu |-> Unset]

EmptyFrame == <<>>

\* the script about to run line 26, tj bound by line 25
Init ==
    /\ pc = 26
    /\ err = ""
    /\ out = Unset
    /\ stdout = <<>>
    /\ \E t \in TjInputs : g = [GUnset EXCEPT !.tj = IntLit(t)]
    /\ \E p \in PopulationInputs : population = IntLit(p)
    /\ ch4_leak \in Tables
    /\ leak_rates = EmptyFrame

\* the statement at `line` is next and no exception has ended the script
At(line) == pc = line /\ err = ""

\* the statement at `line` has run
Past(line) ==
    \/ pc = Done
    \/ \E i, j \in DOMAIN Lines : Lines[i] = line /\ Lines[j] = pc /\ i < j

(***************************************************************************)
(* Lines 22-46: the Russian benchmark                                      *)
(***************************************************************************)
AssignMmcf ==
    /\ At(26)
    /\ g' = [g EXCEPT !.mmcf = Mmcf(g.tj)]
    /\ pc' = Succ(pc)
    /\ UNCHANGED <<err, out, stdout, population, ch4_leak, leak_rates>>

AssignMmtch4 ==
    /\ At(39)
    /\ g' = [g EXCEPT !.mmtch4 = Mmtch4(g.mmcf)]
    /\ pc' = Succ(pc)
    /\ UNCHANGED <<err, out, stdout, population, ch4_leak, leak_rates>>

\* a division of two Python floats raises ZeroDivisionError on a zero divisor
AssignPctleakHigh ==
    /\ At(45)
    /\ IF IsZero(g.mmtch4)
       THEN err' = "ZeroDivisionError" /\ UNCHANGED <<g, pc>>
       ELSE /\ g' = [g EXCEPT !.pctleak_high = Pctleak(33, g.mmtch4)]
            /\ pc' = Succ(pc)
            /\ UNCHANGED err
    /\ UNCHANGED <<out, stdout, population, ch4_leak, leak_rates>>

AssignPctleakLow ==
    /\ At(46)
    /\ IF IsZero(g.mmtch4)
       THEN err' = "ZeroDivisionError" /\ UNCHANGED <<g, pc>>
       ELSE /\ g' = [g EXCEPT !.pctleak_low = Pctleak(5, g.mmtch4)]
            /\ pc' = Succ(pc)
            /\ UNCHANGED err
    /\ UNCHANGED <<out, stdout, population, ch4_leak, leak_rates>>

(***************************************************************************)
(* Lines 61-104, 153-154, 231, 236: the derived columns of ch4_leak        *)
(***************************************************************************)
KeyError(c) == "KeyError: " \o c

\* ch4_leak[c] = <expression over ch4_leak[ColumnReads(c)]>
ColumnAssign(c) ==
    IF HasColumn(ch4_leak, ColumnReads(c))
    THEN /\ ch4_leak' = SetColumn(ch4_leak, c, ColumnValue(c, ch4_leak, g))
         /\ UNCHANGED err
    ELSE /\ err' = KeyError(ColumnReads(c))
         /\ UNCHANGED ch4_leak

AssignColumn ==
    \E c \in DerivedColumns :
        /\ At(ColumnLine(c))
        /\ ColumnAssign(c)
        /\ pc' = IF err' = "" THEN Succ(pc) ELSE pc
        /\ UNCHANGED <<out, stdout, g, population, leak_rates>>

AssignGwp100 ==
    /\ At(98)
    /\ g' = [g EXCEPT !.gwp100 = Gwp100]
    /\ pc' = Succ(pc)
    /\ UNCHANGED <<err, out, stdout, population, ch4_leak, leak_rates>>

AssignGwp20 ==
    /\ At(99)
    /\ g' = [g EXCEPT !.gwp20 = Gwp20]
    /\ pc' = Succ(pc)
    /\ UNCHANGED <<err, out, stdout, population, ch4_leak, leak_rates>>

\* lines 107-167: an expression statement
InlineExpr ==
    /\ err = ""
    /\ pc \in InlineLines
    /\ out' = InlineValue(pc, g)
    /\ pc' = Succ(pc)
    /\ UNCHANGED <<err, stdout, g, population, ch4_leak, leak_rates>>

(***************************************************************************)
(* Lines 199-247: market value of the leak, and its equivalent in cars     *)
(***************************************************************************)
AssignCost ==
    /\ At(218)
    /\ g' = [g EXCEPT !.cost = Cost]
    /\ pc' = Succ(pc)
    /\ UNCHANGED <<err, out, stdout, population, ch4_leak, leak_rates>>

PrintCost ==
    /\ At(220)
    /\ stdout' = Append(stdout,
                   [line |-> 220,
                    args |-> <<ch4_cost.emission_kg, QInt(g.cost),
                               QInt(CostPerYear(g.cost)), ch4_cost.usd_mmbtu_now>>])
    /\ pc' = Succ(pc)
    /\ UNCHANGED <<err, out, g, population, ch4_leak, leak_rates>>

AssignCh4kgToUsdNow ==
    /\ At(224)
    /\ g' = [g EXCEPT !.ch4kg_to_usd_now = Ch4kgToUsd(ch4_cost.usd_mmbtu_now)]
    /\ pc' = Succ(pc)
    /\ UNCHANGED <<err, out, stdout, population, ch4_leak, leak_rates>>

\* line 226: 1000*ch4kg_to_usd_now
ExprCh4tonToUsd ==
    /\ At(226)
    /\ out' = QMul(IntLit(1000), g.ch4kg_to_usd_now)
    /\ pc' = Succ(pc)
    /\ UNCHANGED <<err, stdout, g, population, ch4_leak, leak_rates>>

AssignCh4tonToUsdNow ==
    /\ At(229)
    /\ g' = [g EXCEPT !.ch4ton_to_usd_now = Ch4tonToUsd(g.ch4kg_to_usd_now)]
    /\ pc' = Succ(pc)
    /\ UNCHANGED <<err, out, stdout, population, ch4_leak, leak_rates>>

AssignCh4kgToUsdPast ==
    /\ At(233)
    /\ g' = [g EXCEPT !.ch4kg_to_usd_past = Ch4kgToUsd(ch4_cost.usd_mmbtu_past)]
    /\ pc' = Succ(pc)
    /\ UNCHANGED <<err, out, stdout, population, ch4_leak, leak_rates>>

AssignCh4tonToUsdPast ==
    /\ At(235)
    /\ g' = [g EXCEPT !.ch4ton_to_usd_past = Ch4tonToUsd(g.ch4kg_to_usd_past)]
    /\ pc' = Succ(pc)
    /\ UNCHANGED <<err, out, stdout, population, ch4_leak, leak_rates>>

AssignTypicalCar ==
    /\ At(241)
    /\ g' = [g EXCEPT !.typical_car_kg_co2_hr = TypicalCarKgCo2Hr]
    /\ pc' = Succ(pc)
    /\ UNCHANGED <<err, out, stdout, population, ch4_leak, leak_rates>>

AssignEquivalentGwp20 ==
    /\ At(243)
    /\ g' = [g EXCEPT !.equivalent_to_gwp20 =
                         QInt(CarsPerHour(g.gwp20, g.typical_car_kg_co2_hr))]
    /\ pc' = Succ(pc)
    /\ UNCHANGED <<err, out, stdout, population, ch4_leak, leak_rates>>

AssignEquivalentGwp100 ==
    /\ At(244)
    /\ g' = [g EXCEPT !.equivalent_to_gwp100 =
                         QInt(CarsPerHour(g.gwp100, g.typical_car_kg_co2_hr))]
    /\ pc' = Succ(pc)
    /\ UNCHANGED <<err, out, stdout, population, ch4_leak, leak_rates>>

PrintEquivalent ==
    /\ err = ""
    /\ pc \in {246, 247}
    /\ stdout' = Append(stdout,
                   [line |-> pc,
                    args |-> <<ch4_cost.emission_kg,
                               IF pc = 246 THEN g.equivalent_to_gwp20
                               ELSE g.equivalent_to_gwp100>>])
    /\ pc' = Succ(pc)
    /\ UNCHANGED <<err, out, g, population, ch4_leak, leak_rates>>

(***************************************************************************)
(* Lines 249-265: the leak in typical households                           *)
(***************************************************************************)
AssignTotalHousehold ==
    /\ At(261)
    /\ g' = [g EXCEPT !.total_household_kg_ch4 = TotalHouseholdKgCh4]
    /\ pc' = Succ(pc)
    /\ UNCHANGED <<err, out, stdout, population, ch4_leak, leak_rates>>

AssignTypicalHousehold ==
    /\ At(262)
    /\ g' = [g EXCEPT !.typical_household_kg_ch4 =
                         TypicalHouseholdKgCh4(g.total_household_kg_ch4, population)]
    /\ pc' = Succ(pc)
    /\ UNCHANGED <<err, out, stdout, population, ch4_leak, leak_rates>>

AssignTypicalHouseholdHr ==
    /\ At(263)
    /\ g' = [g EXCEPT !.typical_household_kg_ch4_hr =
                         TypicalHouseholdKgCh4Hr(g.typical_household_kg_ch4)]
    /\ pc' = Succ(pc)
    /\ UNCHANGED <<err, out, stdout, population, ch4_leak, leak_rates>>

\* int() of an infinity raises OverflowError, of a nan ValueError
AssignTypicalNumberHouseholds ==
    /\ At(264)
    /\ LET v == HouseholdsPerHour(g.typical_household_kg_ch4_hr)
       IN  IF IsNum(v)
           THEN /\ g' = [g EXCEPT !.typical_number_households = QInt(v)]
                /\ pc' = Succ(pc)
                /\ UNCHANGED err
           ELSE /\ err' = IF v.k = "inf" THEN "OverflowError" ELSE "ValueError"
                /\ UNCHANGED <<g, pc>>
    /\ UNCHANGED <<out, stdout, population, ch4_leak, leak_rates>>

PrintHouseholds ==
    /\ At(265)
    /\ stdout' = Append(stdout,
                   [line |-> 265,
                    args |-> <<ch4_cost.emission_kg, g.typical_number_households>>])
    /\ pc' = Succ(pc)
    /\ UNCHANGED <<err, out, g, population, ch4_leak, leak_rates>>

(***************************************************************************)
(* Lines 267-281: the fee per mmbtu over a sweep of leak rates             *)
(***************************************************************************)
AssignTonCh4PerMmbtu ==
    /\ At(271)
    /\ g' = [g EXCEPT !.ton_ch4_per_mmbtu = TonCh4PerMmbtu]
    /\ pc' = Succ(pc)
    /\ UNCHANGED <<err, out, stdout, population, ch4_leak, leak_rates>>

\* lines 273 and 276: print(ton_ch4_per_mmbtu[0]) and print(...*1500*0.02)
PrintTonCh4PerMmbtu ==
    /\ err = ""
    /\ pc \in {273, 276}
    /\ stdout' = Append(stdout,
                   [line |-> pc,
                    args |-> <<IF pc = 273 THEN g.ton_ch4_per_mmbtu
                               ELSE QMul(QMul(g.ton_ch4_per_mmbtu, IntLit(1500)),
                                         DecLit(2, 2))>>])
    /\ pc' = Succ(pc)
    /\ UNCHANGED <<err, out, g, population, ch4_leak, leak_rates>>

CreateLeakRates ==
    /\ At(278)
    /\ leak_rates' = SetColumn(EmptyFrame, "leak_rate", Linspace(0, 10, 11))
    /\ pc' = Succ(pc)
    /\ UNCHANGED <<err, out, stdout, g, population, ch4_leak>>

FeeColumn(fee) ==
    CASE fee = 900 -> "usd_per_mmbtu_900"
      [] fee = 1200 -> "usd_per_mmbtu_1200"
      [] fee = 1500 -> "usd_per_mmbtu_1500"

FeeLine(fee) == CASE fee = 900 -> 279 [] fee = 1200 -> 280 [] fee = 1500 -> 281

AssignLeakRateColumn ==
    \E fee \in {900, 1200, 1500} :
        /\ At(FeeLine(fee))
        /\ leak_rates' =
              SetColumn(leak_rates, FeeColumn(fee),
                        UsdPerMmbtu(fee, leak_rates["leak_rate"],
                                    g.ton_ch4_per_mmbtu))
        /\ pc' = Succ(pc)
        /\ UNCHANGED <<err, out, stdout, g, population, ch4_leak>>

(***************************************************************************)
(* The script, top to bottom                                               *)
(***************************************************************************)
Next ==
    \/ AssignMmcf
    \/ AssignMmtch4
    \/ AssignPctleakHigh
    \/ AssignPctleakLow
    \/ AssignColumn
    \/ AssignGwp100
    \/ AssignGwp20
    \/ InlineExpr
    \/ AssignCost
    \/ PrintCost
    \/ AssignCh4kgToUsdNow
    \/ ExprCh4tonToUsd
    \/ AssignCh4tonToUsdNow
    \/ AssignCh4kgToUsdPast
    \/ AssignCh4tonToUsdPast
    \/ AssignTypicalCar
    \/ AssignEquivalentGwp20
    \/ AssignEquivalentGwp100
    \/ PrintEquivalent
    \/ AssignTotalHousehold
    \/ AssignTypicalHousehold
    \/ AssignTypicalHouseholdHr
    \/ AssignTypicalNumberHouseholds
    \/ PrintHouseholds
    \/ AssignTonCh4PerMmbtu
    \/ PrintTonCh4PerMmbtu
    \/ CreateLeakRates
    \/ AssignLeakRateColumn

Spec == Init /\ [][Next]_vars

(***************************************************************************)
(* The column statements run in any order                                  *)
(*                                                                         *)
(* The twelve statements that assign a derived column of ch4_leak, each    *)
(* run once, in an order chosen freely, from the state in which the frame  *)
(* holds year and ton_hr and the names the statements read (gwp100, gwp20, *)
(* ch4ton_to_usd_now, ch4ton_to_usd_past) are bound.  An exception ends    *)
(* the run.                                                                *)
(***************************************************************************)
GBound ==
    [GUnset EXCEPT
        !.gwp100 = Gwp100,
        !.gwp20 = Gwp20,
        !.ch4kg_to_usd_now = Ch4kgToUsd(ch4_cost.usd_mmbtu_now),
        !.ch4ton_to_usd_now = Ch4tonToUsd(Ch4kgToUsd(ch4_cost.usd_mmbtu_now)),
        !.ch4kg_to_usd_past = Ch4kgToUsd(ch4_cost.usd_mmbtu_past),
        !.ch4ton_to_usd_past = Ch4tonToUsd(Ch4kgToUsd(ch4_cost.usd_mmbtu_past))]

InitOrder ==
    /\ pc = 61
    /\ err = ""
    /\ out = Unset
    /\ stdout = <<>>
    /\ g = GBound
    /\ population = IntLit(4620000)
    /\ ch4_leak \in Tables
    /\ leak_rates = EmptyFrame

RunColumn ==
    \E c \in DerivedColumns :
        /\ err = ""
        /\ ~HasColumn(ch4_leak, c)
        /\ ColumnAssign(c)
        /\ UNCHANGED <<pc, out, stdout, g, population, leak_rates>>

NextOrder == RunColumn

SpecOrder == InitOrder /\ [][NextOrder]_vars

(***************************************************************************)
(* Properties                                                              *)
(***************************************************************************)
Rows == DOMAIN ch4_leak["ton_hr"]

IsLiteralTable == ch4_leak["ton_hr"] = LiteralTable["ton_hr"]

\* C4: in every row ton_yr is ton_hr times the one constant 24*365.25 = 8766
\* hours per year, and a rate of 0 annualizes to 0.
AnnualizeByConstant ==
    HasColumn(ch4_leak, "ton_yr") =>
        \A i \in Rows :
            /\ QEq(ch4_leak["ton_yr"][i], QMul(ch4_leak["ton_hr"][i], IntLit(8766)))
            /\ IsZero(ch4_leak["ton_hr"][i]) => IsZero(ch4_leak["ton_yr"][i])

AnnualizedLiteralTable == HasColumn(ch4_leak, "ton_yr") /\ IsLiteralTable

ScheduleColumns ==
    {"fee_900", "fee_1200", "fee_1500", "social_cost_1000", "social_cost_1500"}

ScheduleRate(c) ==
    CASE c = "fee_900" -> 900
      [] c = "fee_1200" -> 1200
      [] c = "fee_1500" -> 1500
      [] c = "social_cost_1000" -> 1000
      [] c = "social_cost_1500" -> 1500

\* C5: each fee and social-cost column is the schedule rate times ton_yr, so
\* that for ton_yr # 0 the column divided by ton_yr is the schedule rate.
FeeLinearity ==
    \A c \in ScheduleColumns :
        HasColumn(ch4_leak, c) =>
            \A i \in Rows :
                LET t == ch4_leak["ton_yr"][i]
                    v == ch4_leak[c][i]
                IN  /\ QEq(v, QMul(IntLit(ScheduleRate(c)), t))
                    /\ ~IsZero(t) => QEq(QDiv(v, t), IntLit(ScheduleRate(c)))

AllSchedulesLiteralTable ==
    /\ \A c \in ScheduleColumns : HasColumn(ch4_leak, c)
    /\ IsLiteralTable

HasCo2e == HasColumn(ch4_leak, "co2e_gwp100") /\ HasColumn(ch4_leak, "co2e_gwp20")

\* C2 as stated: for any tons/year input the CO2-equivalent under the
\* 20-year GWP is strictly larger than under the 100-year GWP.
Gwp20StrictlyLarger ==
    HasCo2e =>
        \A i \in Rows : QLt(ch4_leak["co2e_gwp100"][i], ch4_leak["co2e_gwp20"][i])

\* C2 as amended: for every tons/year input above 0 (each of the eight rows
\* of the script) the CO2-equivalent under the 20-year GWP is strictly
\* larger than under the 100-year GWP; for an input of 0 both are 0.
Gwp20LargerForPositiveTons ==
    HasCo2e =>
        \A i \in Rows :
            IF IsZero(ch4_leak["ton_yr"][i])
            THEN IsZero(ch4_leak["co2e_gwp100"][i]) /\ IsZero(ch4_leak["co2e_gwp20"][i])
            ELSE QLt(ch4_leak["co2e_gwp100"][i], ch4_leak["co2e_gwp20"][i])

Co2eOfPositiveTons ==
    HasCo2e /\ \E i \in Rows : ~IsZero(ch4_leak["ton_yr"][i])

\* C3: each column usd_per_mmbtu_f has 11 rows, row i is
\* f*(leak_rate[i]/100)*ton_ch4_per_mmbtu for leak_rate = 0, 1, ..., 10 in
\* that order, the row at leak_rate 0 is 0, and the values increase.
SweepTable ==
    \A fee \in {900, 1200, 1500} :
        HasColumn(leak_rates, FeeColumn(fee)) =>
            LET lr  == leak_rates["leak_rate"]
                col == leak_rates[FeeColumn(fee)]
            IN  /\ DOMAIN lr = 1..11
                /\ DOMAIN col = 1..11
                /\ \A i \in 1..11 :
                      /\ QEq(lr[i], IntLit(i - 1))
                      /\ QEq(QMul(col[i], IntLit(100)),
                             QMul(IntLit(fee * (i - 1)), g.ton_ch4_per_mmbtu))
                /\ IsZero(col[1])
                /\ \A i \in 1..10 : QLt(col[i], col[i + 1])

SweepComplete ==
    \A fee \in {900, 1200, 1500} : HasColumn(leak_rates, FeeColumn(fee))

\* lo <= x < hi
InRange(lo, x, hi) == QLeq(lo, x) /\ QLt(x, hi)

\* x rounds to the integer n
RoundsTo(x, n) == InRange(DecLit(10 * n - 5, 1), x, DecLit(10 * n + 5, 1))

\* the Russian block has run to its end on the literal of line 25
RussianDone == Past(46) /\ QEq(g.tj, IntLit(25786288))

\* what C6 says of mmtch4 and of the two percentages: mmtch4 is within 1% of
\* 493.4, and the percentages are 6.7 and 1.0 to one decimal place
RussianMassAndPercent ==
    /\ InRange(DecLit(493400 - 4934, 3), g.mmtch4, DecLit(493400 + 4934, 3))
    /\ InRange(DecLit(665, 2), g.pctleak_high, DecLit(675, 2))
    /\ InRange(DecLit(95, 2), g.pctleak_low, DecLit(105, 2))

\* C6 as stated: with tj = 25,786,288 mmcf is 24,438,918 to the nearest
\* unit, mmtch4 is within 1% of 493.4, and the leakage percentages are 6.7
\* and 1.0 to one decimal place.
RussianBenchmarkAsStated ==
    RussianDone => RoundsTo(g.mmcf, 24438918) /\ RussianMassAndPercent

\* C6 as amended: with tj = 25,786,288 mmcf is 24,440,685 to the nearest
\* unit, mmtch4 is within 1% of 493.4, and the leakage percentages are 6.7
\* and 1.0 to one decimal place.
RussianBenchmark ==
    RussianDone => RoundsTo(g.mmcf, 24440685) /\ RussianMassAndPercent

RussianBenchmarkRun == RussianDone /\ err = ""

\* C7: the mass of line 39 divided by its factors in reverse gives back the
\* volume mmcf, and ton_ch4_per_mmbtu times 1000 times the forward chain kg
\* CH4 -> mmbtu (ch4kg_to_usd_now without its price) is 1.
RoundTrip ==
    /\ Past(39) =>
          QEq(QDiv(QDiv(QDiv(g.mmtch4, QDiv(IntLit(1), IntLit(1000))),
                        DecLit(713, 3)), DecLit(283168, 7)),
              g.mmcf)
    /\ Past(271) =>
          QEq(QMul(QMul(g.ton_ch4_per_mmbtu, IntLit(1000)),
                   QDiv(g.ch4kg_to_usd_now, ch4_cost.usd_mmbtu_now)),
              IntLit(1))

RoundTripRun == Past(271) /\ ~IsZero(g.mmcf)

\* the value of the expression at `line` with c hours per year
InlineWithHours(line, c) ==
    LET gwp == IF InlineGwp(line) = "gwp20" THEN g.gwp20 ELSE g.gwp100
        ty  == QMul(IntLit(InlineRate(line)), c)
        mmt == QDiv(QMul(ty, gwp), IntLit(1000000))
        tot == InlineTotal(line)
    IN  CASE InlineKind(line) = "co2e" -> mmt
          [] InlineKind(line) = "pct" ->
                QMul(IntLit(100), QSub(QDiv(QAdd(mmt, tot), tot), IntLit(1)))
          [] OTHER -> QDiv(QMul(ty, gwp), DecLit(46, 1))

\* every annualized figure computed so far uses c hours per year
UsesHoursPerYear(c) ==
    /\ HasColumn(ch4_leak, "ton_yr") =>
          \A i \in Rows : QEq(ch4_leak["ton_yr"][i], QMul(ch4_leak["ton_hr"][i], c))
    /\ \A line \in InlineLines :
          (err = "" /\ pc = Succ(line)) => QEq(out, InlineWithHours(line, c))
    /\ \A i \in DOMAIN stdout :
          stdout[i].line = 220 => stdout[i].args[3] = QInt(QMul(g.cost, c))
    /\ Past(241) =>
          QEq(QMul(g.typical_car_kg_co2_hr, c), QMul(IntLit(1000), DecLit(46, 1)))
    /\ (Past(263) /\ IsNum(g.typical_household_kg_ch4)) =>
          QEq(QMul(g.typical_household_kg_ch4_hr, c), g.typical_household_kg_ch4)

\* C8: one hours-per-year constant, 24*365 or 24*365.25, is used by every
\* annualized figure the script computes.
OneHoursPerYearConvention ==
    \E c \in {QMul(IntLit(24), IntLit(365)), QMul(IntLit(24), DecLit(36525, 2))} :
        UsesHoursPerYear(c)

\* C10: for the row whose ton_hr is the 35000 kg/hr of ch4_cost, the hourly
\* car count emission_kg*gwp/typical_car_kg_co2_hr equals the row's car_gwp
\* for both GWPs, and the printed counts are the integer parts of car_gwp.
CarFormulationsAgree ==
    (Past(244) /\ HasColumn(ch4_leak, "car_gwp20") /\ HasColumn(ch4_leak, "car_gwp100")) =>
        \A i \in Rows :
            QEq(QMul(ch4_leak["ton_hr"][i], IntLit(1000)), ch4_cost.emission_kg) =>
                /\ QEq(CarsPerHour(g.gwp20, g.typical_car_kg_co2_hr),
                       ch4_leak["car_gwp20"][i])
                /\ QEq(CarsPerHour(g.gwp100, g.typical_car_kg_co2_hr),
                       ch4_leak["car_gwp100"][i])
                /\ g.equivalent_to_gwp20 = QInt(ch4_leak["car_gwp20"][i])
                /\ g.equivalent_to_gwp100 = QInt(ch4_leak["car_gwp100"][i])

CarCountsPrinted ==
    /\ Past(247)
    /\ \E i \in Rows :
          QEq(QMul(ch4_leak["ton_hr"][i], IntLit(1000)), ch4_cost.emission_kg)

Faults == {"ZeroDivisionError", "OverflowError", "ValueError"}

ScriptOrder ==
    <<"ton_yr", "fee_900", "fee_1200", "fee_1500", "social_cost_1000",
      "social_cost_1500", "co2e_gwp100", "co2e_gwp20", "car_gwp100",
      "car_gwp20", "usd_yr_now", "usd_yr_past">>

RECURSIVE RunInOrder(_, _)
RunInOrder(df, cs) ==
    IF cs = <<>> THEN df
    ELSE RunInOrder(SetColumn(df, Head(cs), ColumnValue(Head(cs), df, g)), Tail(cs))

\* the frame the script ends with on the observations of ch4_leak
SequentialTable ==
    RunInOrder([c \in {"year", "ton_hr"} |-> ch4_leak[c]], ScriptOrder)

AllColumns == \A c \in DerivedColumns : HasColumn(ch4_leak, c)

\* column c as a function of the row's ton_hr alone
ClosedForm(c, r) ==
    LET t == QMul(r, IntLit(8766))
    IN  CASE c = "ton_yr" -> t
          [] c \in ScheduleColumns -> QMul(t, IntLit(ScheduleRate(c)))
          [] c = "co2e_gwp100" -> QDiv(QMul(t, DecLit(298, 1)), IntLit(1000000))
          [] c = "co2e_gwp20" -> QDiv(QMul(t, DecLit(825, 1)), IntLit(1000000))
          [] c = "car_gwp100" -> QDiv(QMul(t, DecLit(298, 1)), DecLit(46, 1))
          [] c = "car_gwp20" -> QDiv(QMul(t, DecLit(825, 1)), DecLit(46, 1))
          [] c = "usd_yr_now" -> QMul(t, g.ch4ton_to_usd_now)
          [] c = "usd_yr_past" -> QMul(t, g.ch4ton_to_usd_past)

\* C9 as stated: run in any order, the column statements always complete
\* and end with the table of the script's own order.
AnyOrderCompletes ==
    /\ err = ""
    /\ AllColumns => ch4_leak = SequentialTable

OrderInv ==
    /\ \A c \in DerivedColumns :
          HasColumn(ch4_leak, c) =>
              /\ HasColumn(ch4_leak, ColumnReads(c))
              /\ \A i \in Rows :
                    QEq(ch4_leak[c][i], ClosedForm(c, ch4_leak["ton_hr"][i]))
    /\ (err = "" /\ AllColumns) => ch4_leak = SequentialTable
    /\ (err = "" /\ ~AllColumns) =>
          \E c \in DerivedColumns :
              ~HasColumn(ch4_leak, c) /\ HasColumn(ch4_leak, ColumnReads(c))
    /\ err # "" =>
          \E c \in DerivedColumns :
              /\ ~HasColumn(ch4_leak, c)
              /\ ~HasColumn(ch4_leak, ColumnReads(c))
              /\ err = KeyError(ColumnReads(c))

OrderFrame ==
    \A c \in DOMAIN ch4_leak : c \in DOMAIN ch4_leak' /\ ch4_leak'[c] = ch4_leak[c]

\* C9 as amended: every derived column is a function of its row's ton_hr
\* and the literals, and no step changes year, ton_hr or a column already
\* computed; but each step reads one column (ton_yr reads ton_hr, car_gwp*
\* read co2e_gwp*, every other step reads ton_yr), and a step run before
\* the step that assigns the column it reads raises KeyError and ends the
\* run.  Every order in which each step runs after that step can be
\* completed, and ends with the column values of the script's own order.
DependencyOrderSameTable == []OrderInv /\ [][OrderFrame]_vars

OutOfScriptOrder ==
    /\ err = ""
    /\ HasColumn(ch4_leak, "car_gwp20")
    /\ HasColumn(ch4_leak, "usd_yr_past")
    /\ ~HasColumn(ch4_leak, "fee_900")
    /\ IsLiteralTable

====
